---- MODULE Spec2Model ----
(***************************************************************************)
(* Model of stock_news_discord.py: fetch Korean stock news, translate it   *)
(* to English and Chinese, build one digest and post it to a Discord       *)
(* webhook in chunks.                                                      *)
(*                                                                         *)
(* A Python str is a sequence of one-character strings.  A character       *)
(* outside ASCII is written as the token of its code point ("U+D55C"), so  *)
(* Len of a modelled string is Python's len of the string it models.       *)
(***************************************************************************)
EXTENDS Integers, Sequences, FiniteSets, TLC

(***************************************************************************)
(* Bounds of the model.                                                    *)
(***************************************************************************)
\* Largest number of articles in one response of the news endpoint.
MaxArticles == 2
\* Largest number of lines of a message handed directly to send_to_discord.
MaxLines == 2
\* Largest number of translation-service calls that throw in one run.
MaxFailures == 2

(***************************************************************************)
(* Python values and str methods.                                          *)
(***************************************************************************)
\* None: a token that is no character, so it differs from every str.
None == <<"None">>

\* Truthiness of an Optional[str] / list: None and the empty value are falsy.
Truthy(x) == x # None /\ x # <<>>

\* `x or ""`.
OrEmpty(x) == IF Truthy(x) THEN x ELSE <<>>

\* The characters str.strip() removes.
Whitespace == {" ", "\t", "\n", "\r", "\f"}

RECURSIVE LSkip(_, _)
LSkip(s, i) == IF i <= Len(s) /\ s[i] \in Whitespace THEN LSkip(s, i + 1) ELSE i

RECURSIVE RSkip(_, _)
RSkip(s, j) == IF j >= 1 /\ s[j] \in Whitespace THEN RSkip(s, j - 1) ELSE j

\* str.strip()
Strip(s) == SubSeq(s, LSkip(s, 1), RSkip(s, Len(s)))

\* str.replace("\n", " ")
ReplaceNewlines(s) == [i \in 1..Len(s) |-> IF s[i] = "\n" THEN " " ELSE s[i]]

\* The elements of a finite set of integers in increasing order.
RECURSIVE SortedSeq(_)
SortedSeq(S) ==
    IF S = {} THEN <<>>
    ELSE LET x == CHOOSE y \in S : TRUE
             rest == SortedSeq(S \ {x})
             lt(y) == y < x
             gt(y) == y > x
         IN SelectSeq(rest, lt) \o <<x>> \o SelectSeq(rest, gt)

\* str.split("\n"): the pieces between the newlines, one more than newlines.
Split(s) ==
    LET nl == SortedSeq({i \in 1..Len(s) : s[i] = "\n"})
        cut == <<0>> \o nl \o <<Len(s) + 1>>
    IN [k \in 1..(Len(nl) + 1) |-> SubSeq(s, cut[k] + 1, cut[k + 1] - 1)]

\* "\n".join(lines)
RECURSIVE Join(_)
Join(lines) ==
    IF lines = <<>> THEN <<>>
    ELSE IF Len(lines) = 1 THEN lines[1]
    ELSE lines[1] \o <<"\n">> \o Join(Tail(lines))

\* str(i) for a small non-negative int.
RECURSIVE Str(_)
Str(i) ==
    LET digit == <<"0", "1", "2", "3", "4", "5", "6", "7", "8", "9">>
    IN IF i < 10 THEN <<digit[i + 1]>>
       ELSE Str(i \div 10) \o <<digit[(i % 10) + 1]>>

\* n copies of character c.
Rep(c, n) == [i \in 1..n |-> c]

\* The concatenation of a sequence of sequences.
RECURSIVE Flatten(_)
Flatten(ss) == IF ss = <<>> THEN <<>> ELSE Head(ss) \o Flatten(Tail(ss))

\* s starts with prefix p.
StartsWith(s, p) == Len(s) >= Len(p) /\ SubSeq(s, 1, Len(p)) = p

(***************************************************************************)
(* Program constants.                                                      *)
(***************************************************************************)
\* send_to_discord: max_len = 1900
max_len == 1900

\* The literals of build_message.
TitleLine ==
    <<"*", "*", "U+C624", "U+B298", "U+C758", " ", "U+D55C", "U+AD6D", " ",
      "U+C8FC", "U+C2DD", " ", "T", "O", "P", " ", "5", " ", "U+B274",
      "U+C2A4", "*", "*", "\n">>
KoHeader ==
    <<"=", "=", "=", " ", "U+1F1F0", "U+1F1F7", " ", "U+D55C", "U+AD6D",
      "U+C5B4", " ", "=", "=", "=">>
EnHeader ==
    <<"=", "=", "=", " ", "U+1F1FA", "U+1F1F8", " ", "E", "n", "g", "l", "i",
      "s", "h", " ", "=", "=", "=">>
ZhHeader ==
    <<"=", "=", "=", " ", "U+1F1E8", "U+1F1F3", " ", "U+4E2D", "U+6587", "(",
      "U+7B80", "U+4F53", ")", " ", "=", "=", "=">>
KoSummary == <<" ", " ", " ", "-", " ", "U+C694", "U+C57D", ":", " ">>
EnSummary ==
    <<" ", " ", " ", "-", " ", "S", "u", "m", "m", "a", "r", "y", ":", " ">>
ZhSummary == <<" ", " ", " ", "-", " ", "U+6458", "U+8981", ":", " ">>
KoLink == <<" ", " ", " ", "U+B9C1", "U+D06C", ":", " ">>

(***************************************************************************)
(* The environment: what the external services may answer.                 *)
(***************************************************************************)
\* HTTP status codes of the news endpoint: raise_for_status raises from 400.
NewsStatusCodes == {200, 401}

\* HTTP status codes of the webhook.
WebhookStatusCodes == {200, 204, 400}

\* The values os.environ.get may give a setting: missing, empty, or set.
KeyValues == {None, <<>>, <<"k">>}
UrlValues == {None, <<"h">>}

\* Article objects of the endpoint's JSON; a field may be null.
RawArticles ==
    { [title |-> None, description |-> None, url |-> None],
      [title |-> <<" ">>, description |-> <<"d">>, url |-> <<"u">>],
      [title |-> <<" ", "T">>, description |-> None, url |-> None],
      [title |-> <<"W">>, description |-> <<" ", "\n">>, url |-> <<"u">>],
      [title |-> <<"F">>, description |-> <<"a", "\n", "b", " ">>,
       url |-> <<"v">>] }

\* The "articles" lists the endpoint may return.
Responses == UNION {[1..n -> RawArticles] : n \in 0..MaxArticles}

\* Lines of the messages handed directly to send_to_discord: empty, blank,
\* short, and around max_len.
SampleLines ==
    { <<>>, <<" ">>, <<"a">>, Rep("b", max_len - 1), Rep("c", max_len) }

DirectMessages ==
    {Join(ls) : ls \in UNION {[1..n -> SampleLines] : n \in 1..MaxLines}}

\* Texts handed directly to translate_text.
SampleTexts == {<<>>, <<" ">>, <<"T">>, <<"a", "\n", "b", " ">>}

TargetLangs == {"en", "chinese (simplified)"}

\* GoogleTranslator(source="ko", target=target_lang).translate(text), when it
\* does not throw: some text in the target language, here the source text
\* behind a mark of the language.
GoogleTranslate(text, target_lang) ==
    (IF target_lang = "en" THEN <<"E", "N", ":">> ELSE <<"Z", "H", ":">>)
        \o text

(***************************************************************************)
(* The functions of the program.  Each takes, beside its arguments, the    *)
(* answers of the services it calls, and gives what it returns, the        *)
(* external calls it made in order (calls), what it printed (out) and the  *)
(* exception it raised ("" for none).                                      *)
(***************************************************************************)
Call(kind, lang, text, ok) ==
    [kind |-> kind, lang |-> lang, text |-> text, ok |-> ok]

\* ParseArticle without the .strip() of the title.
ParseArticleNoStrip(a) ==
    [title |-> OrEmpty(a.title),
     description |-> OrEmpty(a.description),
     url |-> OrEmpty(a.url)]

\* fetch_korean_stock_news, lines 34-48: one entry of news_list.
ParseArticle(a) ==
    [title |-> Strip(OrEmpty(a.title)),
     description |-> OrEmpty(a.description),
     url |-> OrEmpty(a.url)]

HasTitle(n) == n.title # <<>>

\* fetch_korean_stock_news with the key looked at after the request is made.
fetch_checks_key_late(api_key, status_code, articles_json) ==
    IF ~Truthy(api_key)
    THEN [raised |-> "RuntimeError: NEWS_API_KEY",
          calls |-> <<Call("news", "ko", <<>>, FALSE)>>,
          out |-> <<>>, news_list |-> <<>>]
    ELSE IF status_code >= 400
    THEN [raised |-> "HTTPError",
          calls |-> <<Call("news", "ko", <<>>, FALSE)>>,
          out |-> <<>>, news_list |-> <<>>]
    ELSE [raised |-> "",
          calls |-> <<Call("news", "ko", <<>>, TRUE)>>,
          out |-> <<"NewsAPI summary">>,
          news_list |->
              SelectSeq([i \in 1..Len(articles_json) |->
                            ParseArticle(articles_json[i])], HasTitle)]

fetch_korean_stock_news(api_key, status_code, articles_json) ==
    IF ~Truthy(api_key)
    THEN [raised |-> "RuntimeError: NEWS_API_KEY", calls |-> <<>>,
          out |-> <<>>, news_list |-> <<>>]
    ELSE IF status_code >= 400
    THEN [raised |-> "HTTPError",
          calls |-> <<Call("news", "ko", <<>>, FALSE)>>,
          out |-> <<>>, news_list |-> <<>>]
    ELSE [raised |-> "",
          calls |-> <<Call("news", "ko", <<>>, TRUE)>>,
          out |-> <<"NewsAPI summary">>,
          news_list |->
              SelectSeq([i \in 1..Len(articles_json) |->
                            ParseArticle(articles_json[i])], HasTitle)]

\* translate_text giving "" instead of the text when the service throws.
translate_text_drops_on_error(text, target_lang, throws) ==
    IF ~Truthy(text)
    THEN [ret |-> <<>>, calls |-> <<>>, out |-> <<>>]
    ELSE IF throws
    THEN [ret |-> <<>>,
          calls |-> <<Call("translate", target_lang, text, FALSE)>>,
          out |-> <<"translation error">>]
    ELSE [ret |-> GoogleTranslate(text, target_lang),
          calls |-> <<Call("translate", target_lang, text, TRUE)>>,
          out |-> <<>>]

\* translate_text without its test of an empty text.
translate_text_no_guard(text, target_lang, throws) ==
    IF throws
    THEN [ret |-> text,
          calls |-> <<Call("translate", target_lang, text, FALSE)>>,
          out |-> <<"translation error">>]
    ELSE [ret |-> GoogleTranslate(text, target_lang),
          calls |-> <<Call("translate", target_lang, text, TRUE)>>,
          out |-> <<>>]

\* translate_text; throws: whether the call to the translation service throws.
translate_text(text, target_lang, throws) ==
    IF ~Truthy(text)
    THEN [ret |-> <<>>, calls |-> <<>>, out |-> <<>>]
    ELSE IF throws
    THEN [ret |-> text,
          calls |-> <<Call("translate", target_lang, text, FALSE)>>,
          out |-> <<"translation error">>]
    ELSE [ret |-> GoogleTranslate(text, target_lang),
          calls |-> <<Call("translate", target_lang, text, TRUE)>>,
          out |-> <<>>]

\* translate_news_list, lines 66-78: one pass of the loop.
TranslateItem(item, dest_lang, throws) ==
    LET t == translate_text(item.title, dest_lang, throws.title)
        d == IF Truthy(item.description)
             THEN translate_text(item.description, dest_lang,
                                 throws.description)
             ELSE [ret |-> <<>>, calls |-> <<>>, out |-> <<>>]
    IN [entry |-> [title |-> t.ret, description |-> d.ret, url |-> item.url],
        calls |-> t.calls \o d.calls,
        out |-> t.out \o d.out]

\* translate_news_list translating the url as well.
translate_news_list_with_url(news_list, dest_lang, throws) ==
    LET done == [i \in 1..Len(news_list) |->
                    TranslateItem(news_list[i], dest_lang, throws[i])]
        u(i) == translate_text(news_list[i].url, dest_lang, FALSE).ret
    IN [translated |-> [i \in 1..Len(news_list) |->
                           [done[i].entry EXCEPT !.url = u(i)]],
        calls |-> Flatten([i \in 1..Len(news_list) |-> done[i].calls]),
        out |-> Flatten([i \in 1..Len(news_list) |-> done[i].out])]

\* translate_news_list; throws[i]: which calls made for item i throw.
translate_news_list(news_list, dest_lang, throws) ==
    LET done == [i \in 1..Len(news_list) |->
                    TranslateItem(news_list[i], dest_lang, throws[i])]
    IN [translated |-> [i \in 1..Len(news_list) |-> done[i].entry],
        calls |-> Flatten([i \in 1..Len(news_list) |-> done[i].calls]),
        out |-> Flatten([i \in 1..Len(news_list) |-> done[i].out])]

\* build_message, lines 89-95: the lines of entry i of the Korean section.
KoEntry(i, n) ==
    <<Str(i) \o <<".", " ">> \o n.title>>
    \o (IF n.description # <<>>
        THEN <<KoSummary \o Strip(ReplaceNewlines(n.description))>>
        ELSE <<>>)
    \o (IF n.url # <<>> THEN <<KoLink \o n.url>> ELSE <<>>)
    \o << <<>> >>

\* build_message, lines 99-103: the lines of entry i of the English section.
EnEntry(i, n) ==
    <<Str(i) \o <<".", " ">> \o n.title>>
    \o (IF n.description # <<>>
        THEN <<EnSummary \o Strip(ReplaceNewlines(n.description))>>
        ELSE <<>>)
    \o << <<>> >>

\* build_message, lines 107-111: the lines of entry i of the Chinese section.
ZhEntry(i, n) ==
    <<Str(i) \o <<".", " ">> \o n.title>>
    \o (IF n.description # <<>>
        THEN <<ZhSummary \o Strip(ReplaceNewlines(n.description))>>
        ELSE <<>>)
    \o << <<>> >>

build_message(ko, en, zh) ==
    Join(<<TitleLine, KoHeader>>
         \o Flatten([i \in 1..Len(ko) |-> KoEntry(i, ko[i])])
         \o <<EnHeader>>
         \o Flatten([i \in 1..Len(en) |-> EnEntry(i, en[i])])
         \o <<ZhHeader>>
         \o Flatten([i \in 1..Len(zh) |-> ZhEntry(i, zh[i])]))

\* _post_discord posting a second time when the first post fails.
_post_discord_retry(content, status_code) ==
    [calls |-> IF status_code \in {200, 204}
               THEN <<Call("webhook", "", content, TRUE)>>
               ELSE <<Call("webhook", "", content, FALSE),
                      Call("webhook", "", content, FALSE)>>,
     out |-> IF status_code \notin {200, 204}
             THEN <<"post failed">> ELSE <<"post ok">>]

\* _post_discord; status_code: the status of the webhook's response.
_post_discord(content, status_code) ==
    [calls |-> <<Call("webhook", "", content, status_code \in {200, 204})>>,
     out |-> IF status_code \notin {200, 204}
             THEN <<"post failed">> ELSE <<"post ok">>]

\* The loop starting the new buffer empty, without the line that did not fit.
RECURSIVE SendLoopLosesLine(_, _, _, _)
SendLoopLosesLine(lines, i, buffer, posted) ==
    IF i > Len(lines) THEN [buffer |-> buffer, posted |-> posted]
    ELSE IF Len(buffer) + Len(lines[i]) + 1 > max_len
    THEN SendLoopLosesLine(lines, i + 1, <<>>, Append(posted, buffer))
    ELSE SendLoopLosesLine(lines, i + 1, buffer \o lines[i] \o <<"\n">>,
                           posted)

\* send_to_discord, lines 125-130: the loop from line i on; posted: the
\* contents handed to _post_discord so far.
RECURSIVE SendLoop(_, _, _, _)
SendLoop(lines, i, buffer, posted) ==
    IF i > Len(lines) THEN [buffer |-> buffer, posted |-> posted]
    ELSE IF Len(buffer) + Len(lines[i]) + 1 > max_len
    THEN SendLoop(lines, i + 1, lines[i] \o <<"\n">>, Append(posted, buffer))
    ELSE SendLoop(lines, i + 1, buffer \o lines[i] \o <<"\n">>, posted)

\* send_to_discord, lines 121-133: the contents handed to _post_discord.
Chunks(message) ==
    LET r == SendLoop(Split(message), 1, <<>>, <<>>)
    IN IF Strip(r.buffer) # <<>> THEN Append(r.posted, r.buffer) ELSE r.posted

\* send_to_discord, lines 117-133, with chunks the contents its loop hands to
\* _post_discord for the message; status[k]: the status of the response to
\* post k.
send_to_discord(webhook_url, chunks, status) ==
    IF ~Truthy(webhook_url)
    THEN [raised |-> "RuntimeError: DISCORD_WEBHOOK_URL", calls |-> <<>>,
          out |-> <<>>]
    ELSE [raised |-> "",
          calls |-> Flatten([k \in 1..Len(chunks) |->
                                _post_discord(chunks[k], status[k]).calls]),
          out |-> Flatten([k \in 1..Len(chunks) |->
                              _post_discord(chunks[k], status[k]).out])]

(***************************************************************************)
(* The state.                                                              *)
(***************************************************************************)
VARIABLES
    entry,                \* the function the process runs: main, or one of
                          \* send_to_discord and translate_text called alone
    pc,                   \* where the run is
    NEWS_API_KEY,         \* the module's settings, read from the environment
    DISCORD_WEBHOOK_URL,
    articles,             \* fetch_korean_stock_news: data.get("articles", [])
    ko_news,              \* main's locals
    en_news,
    zh_news,
    message,              \* main's message / send_to_discord's argument
    text,                 \* translate_text's arguments and return value
    target_lang,
    ret,
    calls,                \* the calls to external services made, in order
    out,                  \* the lines printed, in order
    err                   \* the exception that ended the run, "" for none

vars ==
    <<entry, pc, NEWS_API_KEY, DISCORD_WEBHOOK_URL, articles, ko_news, en_news,
      zh_news, message, text, target_lang, ret, calls, out, err>>

env == <<entry, NEWS_API_KEY, DISCORD_WEBHOOK_URL>>

Init ==
    /\ articles = <<>> /\ ko_news = <<>> /\ en_news = <<>> /\ zh_news = <<>>
    /\ ret = None /\ calls = <<>> /\ out = <<>> /\ err = ""
    /\ \/ /\ entry = "main" /\ pc = "fetch"
          /\ NEWS_API_KEY \in KeyValues /\ DISCORD_WEBHOOK_URL \in UrlValues
          /\ message = None /\ text = <<>> /\ target_lang = ""
       \/ /\ entry = "send_to_discord" /\ pc = "send"
          /\ NEWS_API_KEY = None /\ DISCORD_WEBHOOK_URL \in UrlValues
          /\ message \in DirectMessages /\ text = <<>> /\ target_lang = ""
       \/ /\ entry = "translate_text" /\ pc = "translate_text"
          /\ NEWS_API_KEY = None /\ DISCORD_WEBHOOK_URL = None
          /\ message = None /\ text \in SampleTexts
          /\ target_lang \in TargetLangs

(***************************************************************************)
(* main, step by step.                                                     *)
(***************************************************************************)
\* The translation calls among cs that threw.
Failures(cs) == Cardinality({i \in 1..Len(cs) :
                                cs[i].kind = "translate" /\ ~cs[i].ok})

\* Which translation calls of one pass over news_list throw: at most budget.
ThrowPatterns(news_list, budget) ==
    {th \in [1..Len(news_list) -> [title : BOOLEAN, description : BOOLEAN]] :
        /\ \A i \in 1..Len(news_list) :
              th[i].description => Truthy(news_list[i].description)
        /\ Cardinality({i \in 1..Len(news_list) : th[i].title})
           + Cardinality({i \in 1..Len(news_list) : th[i].description})
           <= budget}

\* main, lines 145-150.
Fetch ==
    /\ entry = "main" /\ pc = "fetch"
    /\ \E status_code \in NewsStatusCodes, body \in Responses :
          LET r == fetch_korean_stock_news(NEWS_API_KEY, status_code, body)
          IN /\ articles' = IF r.raised = "" THEN body ELSE <<>>
             /\ ko_news' = r.news_list
             /\ calls' = calls \o r.calls
             /\ err' = r.raised
             /\ out' = out \o <<"start">> \o r.out
                       \o (IF r.raised = "" /\ r.news_list = <<>>
                           THEN <<"no news">> ELSE <<>>)
             /\ pc' = IF r.raised # "" THEN "raised"
                      ELSE IF r.news_list = <<>> THEN "done"
                      ELSE "translate_en"
    /\ UNCHANGED <<env, en_news, zh_news, message, text, target_lang, ret>>

\* main, line 152.
TranslateEn ==
    /\ entry = "main" /\ pc = "translate_en"
    /\ \E throws \in ThrowPatterns(ko_news, MaxFailures - Failures(calls)) :
          LET r == translate_news_list(ko_news, "en", throws)
          IN /\ en_news' = r.translated
             /\ calls' = calls \o r.calls
             /\ out' = out \o r.out
    /\ pc' = "translate_zh"
    /\ UNCHANGED <<env, articles, ko_news, zh_news, message, text,
                   target_lang, ret, err>>

\* main, line 153.
TranslateZh ==
    /\ entry = "main" /\ pc = "translate_zh"
    /\ \E throws \in ThrowPatterns(ko_news, MaxFailures - Failures(calls)) :
          LET r == translate_news_list(ko_news, "chinese (simplified)", throws)
          IN /\ zh_news' = r.translated
             /\ calls' = calls \o r.calls
             /\ out' = out \o r.out
    /\ pc' = "build"
    /\ UNCHANGED <<env, articles, ko_news, en_news, message, text,
                   target_lang, ret, err>>

\* main, line 155.
Build ==
    /\ entry = "main" /\ pc = "build"
    /\ message' = build_message(ko_news, en_news, zh_news)
    /\ pc' = "send"
    /\ UNCHANGED <<env, articles, ko_news, en_news, zh_news, text,
                   target_lang, ret, calls, out, err>>

\* main, line 156, or send_to_discord called alone.
Send ==
    /\ pc = "send"
    /\ LET chunks == Chunks(message)
       IN \E status \in [1..Len(chunks) -> WebhookStatusCodes] :
             LET r == send_to_discord(DISCORD_WEBHOOK_URL, chunks, status)
             IN /\ calls' = calls \o r.calls
                /\ out' = out \o r.out
                /\ err' = r.raised
                /\ pc' = IF r.raised # "" THEN "raised"
                         ELSE IF entry = "main" THEN "complete"
                         ELSE "returned"
    /\ UNCHANGED <<env, articles, ko_news, en_news, zh_news, message, text,
                   target_lang, ret>>

\* main, line 158.
Complete ==
    /\ entry = "main" /\ pc = "complete"
    /\ out' = Append(out, "job done")
    /\ pc' = "done"
    /\ UNCHANGED <<env, articles, ko_news, en_news, zh_news, message, text,
                   target_lang, ret, calls, err>>

\* translate_text called alone.
TranslateText ==
    /\ entry = "translate_text" /\ pc = "translate_text"
    /\ \E throws \in BOOLEAN :
          LET r == translate_text(text, target_lang, throws)
          IN /\ ret' = r.ret
             /\ calls' = calls \o r.calls
             /\ out' = out \o r.out
    /\ pc' = "returned"
    /\ UNCHANGED <<env, articles, ko_news, en_news, zh_news, message, text,
                   target_lang, err>>

Next ==
    \/ Fetch
    \/ TranslateEn
    \/ TranslateZh
    \/ Build
    \/ Send
    \/ Complete
    \/ TranslateText

Spec == Init /\ [][Next]_vars

(***************************************************************************)
(* What the properties below read off the state.                           *)
(***************************************************************************)
IsWebhook(c) == c.kind = "webhook"
IsTranslate(c) == c.kind = "translate"
IsNews(c) == c.kind = "news"
IsEn(c) == c.kind = "translate" /\ c.lang = "en"
IsZh(c) == c.kind = "translate" /\ c.lang = "chinese (simplified)"

\* The contents posted to the webhook, in posting order.
Posted ==
    LET w == SelectSeq(calls, IsWebhook) IN [k \in 1..Len(w) |-> w[k].text]

\* The lines a posted chunk holds: each ends with a newline.
ChunkLines(chunk) ==
    LET pieces == Split(chunk) IN SubSeq(pieces, 1, Len(pieces) - 1)

PostedLines == Flatten([k \in 1..Len(Posted) |-> ChunkLines(Posted[k])])

\* send_to_discord has returned to its caller without raising.
SendReturned == pc \in {"returned", "complete", "done"} /\ message # None

\* A title the fetch step drops: null, empty or only whitespace.
BlankTitle(a) ==
    a.title = None \/ \A k \in 1..Len(a.title) : a.title[k] \in Whitespace

NonBlankTitle(a) == ~BlankTitle(a)

HasDescription(n) == n.description # <<>>

\* The texts one translation pass hands to translate_text, in order, each with
\* the item and the field it belongs to.
RECURSIVE Fields(_, _)
Fields(news_list, i) ==
    IF i > Len(news_list) THEN <<>>
    ELSE <<[i |-> i, f |-> "title", text |-> news_list[i].title]>>
         \o (IF news_list[i].description # <<>>
             THEN <<[i |-> i, f |-> "description",
                     text |-> news_list[i].description]>>
             ELSE <<>>)
         \o Fields(news_list, i + 1)

\* Every field of the translated list holds the service's translation when
\* its call succeeded and the source text when its call threw.
PassHolds(translated, lang_calls, lang) ==
    LET fs == Fields(ko_news, 1)
    IN /\ Len(lang_calls) = Len(fs)
       /\ Len(translated) = Len(ko_news)
       /\ \A k \in 1..Len(fs) :
             /\ lang_calls[k].text = fs[k].text
             /\ translated[fs[k].i][fs[k].f] =
                   IF lang_calls[k].ok
                   THEN GoogleTranslate(fs[k].text, lang)
                   ELSE fs[k].text

EnDone == entry = "main" /\ pc \notin {"fetch", "translate_en"}
ZhDone == entry = "main" /\ pc \notin {"fetch", "translate_en", "translate_zh"}

\* Where a call stands in the order of a run.
Stage(c) ==
    IF c.kind = "news" THEN 0
    ELSE IF c.kind = "translate" /\ c.lang = "en" THEN 1
    ELSE IF c.kind = "translate" THEN 2
    ELSE 3

\* The lines of the digest starting with a label.
Labelled(lines, label) == {k \in 1..Len(lines) : StartsWith(lines[k], label)}

(***************************************************************************)
(* C1: every chunk posted to the webhook is at most 1900 characters long,  *)
(* its newlines counted, whatever the message.                             *)
(* Fails: a line of 1900 characters or more is posted whole.               *)
(***************************************************************************)
C1_ChunkWithinLimit ==
    \A i \in 1..Len(calls) :
        calls[i].kind = "webhook" => Len(calls[i].text) <= 1900

(***************************************************************************)
(* C2: once send_to_discord has returned, the lines of the posted chunks,  *)
(* in posting order, are the lines of the message: nothing lost, also not  *)
(* a final remainder of only whitespace.                                   *)
(* Fails: the remainder is not posted when it is only whitespace.          *)
(***************************************************************************)
C2_AllLinesPosted == SendReturned => PostedLines = Split(message)

(***************************************************************************)
(* C2, amended: once send_to_discord has returned, the lines of the posted *)
(* chunks, in posting order, are the first lines of the message, each      *)
(* whole and once, and every line after them is empty or only whitespace.  *)
(***************************************************************************)
C2_PostedLinesArePrefix ==
    SendReturned =>
        LET ls == Split(message)
            pl == PostedLines
        IN /\ Len(pl) <= Len(ls)
           /\ pl = SubSeq(ls, 1, Len(pl))
           /\ \A j \in (Len(pl) + 1)..Len(ls) : Strip(ls[j]) = <<>>

\* A chunk was posted and the remainder after it, only whitespace, was not.
C2_Witness ==
    /\ SendReturned
    /\ Len(Posted) >= 1
    /\ Posted[Len(Posted)] # <<>>
    /\ Len(PostedLines) < Len(Split(message))

(***************************************************************************)
(* C3: a post answered with a status other than 200 or 204 stops nothing:  *)
(* send_to_discord posts every chunk of the message once, in order,        *)
(* whatever the statuses, logs each failure, raises nothing, and main then *)
(* prints its completion line.                                             *)
(***************************************************************************)
C3_FailedPostStopsNothing ==
    /\ SendReturned =>
          /\ err = ""
          /\ Posted = Chunks(message)
          /\ Len(SelectSeq(out, LAMBDA o : o = "post failed"))
             = Cardinality({i \in 1..Len(calls) :
                               calls[i].kind = "webhook" /\ ~calls[i].ok})
          /\ Len(SelectSeq(out, LAMBDA o : o \in {"post failed", "post ok"}))
             = Len(Posted)
    /\ (entry = "main" /\ pc = "done" /\ message # None) =>
          out[Len(out)] = "job done"
    /\ Posted # <<>> => pc # "raised"

\* A post failed and a later chunk was posted all the same.
C3_Witness ==
    /\ SendReturned
    /\ \E i, j \in 1..Len(calls) :
          /\ i < j
          /\ calls[i].kind = "webhook" /\ ~calls[i].ok
          /\ calls[j].kind = "webhook"

(***************************************************************************)
(* C4: when the endpoint returns no article with a title that is not       *)
(* blank, the run ends normally after the news query alone: no translation *)
(* call, no digest, no webhook call, the webhook setting not looked at.    *)
(***************************************************************************)
C4_EmptyFetchEndsRun ==
    (/\ entry = "main"
     /\ pc \notin {"fetch", "raised"}
     /\ \A i \in 1..Len(articles) : BlankTitle(articles[i])) =>
        /\ pc = "done"
        /\ err = ""
        /\ ko_news = <<>> /\ en_news = <<>> /\ zh_news = <<>>
        /\ message = None
        /\ Len(calls) = 1 /\ calls[1].kind = "news"
        /\ out[Len(out)] = "no news"

\* Articles came back, all with blank titles, no webhook is set, and the run
\* is over.
C4_Witness ==
    /\ entry = "main" /\ pc = "done"
    /\ Len(articles) = 2
    /\ ko_news = <<>>
    /\ DISCORD_WEBHOOK_URL = None

(***************************************************************************)
(* C5: without the news API key the run ends with the configuration error  *)
(* and not one external call made, the webhook set or not; without the     *)
(* webhook URL send_to_discord raises and no post is made.                 *)
(***************************************************************************)
C5_MissingCredentialStopsBeforeCalls ==
    /\ (entry = "main" /\ ~Truthy(NEWS_API_KEY) /\ pc # "fetch") =>
          /\ pc = "raised"
          /\ err = "RuntimeError: NEWS_API_KEY"
          /\ calls = <<>>
    /\ ~Truthy(DISCORD_WEBHOOK_URL) =>
          /\ Posted = <<>>
          /\ ~SendReturned
          /\ (message # None /\ pc # "send") =>
                 /\ pc = "raised"
                 /\ err = "RuntimeError: DISCORD_WEBHOOK_URL"

\* The webhook is set, the key is not, and the run has ended.
C5_Witness ==
    /\ entry = "main" /\ pc = "raised"
    /\ NEWS_API_KEY = None
    /\ Truthy(DISCORD_WEBHOOK_URL)

(***************************************************************************)
(* C6: a translation call that throws leaves the source text in its field  *)
(* and ends nothing: every other field is still translated, the digest is  *)
(* built and the send step is reached.                                     *)
(***************************************************************************)
C6_TranslationFailureFallsBack ==
    /\ EnDone => PassHolds(en_news, SelectSeq(calls, IsEn), "en")
    /\ ZhDone => PassHolds(zh_news, SelectSeq(calls, IsZh),
                           "chinese (simplified)")
    /\ (pc = "raised" /\ Failures(calls) > 0) =>
          err = "RuntimeError: DISCORD_WEBHOOK_URL"
    /\ (entry = "translate_text" /\ pc = "returned" /\ Failures(calls) > 0) =>
          ret = text

\* Translation calls threw, and the run went on to post the digest.
C6_Witness ==
    /\ entry = "main" /\ pc = "done"
    /\ Posted # <<>>
    /\ \E i, j \in 1..Len(calls) :
          /\ IsEn(calls[i]) /\ ~calls[i].ok
          /\ IsZh(calls[j]) /\ calls[j].ok
    /\ \E i \in 1..Len(calls) : IsEn(calls[i]) /\ calls[i].ok

(***************************************************************************)
(* C7: the English and the Chinese list have one entry for every returned  *)
(* article whose title is not blank, in the order returned, entry i made   *)
(* from source article i and with its url; the passes leave the source     *)
(* list as the fetch step made it.                                         *)
(***************************************************************************)
C7_TranslatedListsParallel ==
    LET kept == SelectSeq(articles, NonBlankTitle)
        Parallel(tr, lang) ==
            /\ Len(tr) = Len(kept)
            /\ \A i \in 1..Len(tr) :
                  /\ tr[i].url = OrEmpty(kept[i].url)
                  /\ tr[i].title \in
                        {ko_news[i].title,
                         GoogleTranslate(ko_news[i].title, lang)}
                  /\ tr[i].description \in
                        {ko_news[i].description,
                         GoogleTranslate(ko_news[i].description, lang)}
    IN /\ entry = "main" =>
             /\ Len(ko_news) = Len(kept)
             /\ \A i \in 1..Len(ko_news) :
                   /\ ko_news[i].title = Strip(kept[i].title)
                   /\ ko_news[i].description = OrEmpty(kept[i].description)
                   /\ ko_news[i].url = OrEmpty(kept[i].url)
       /\ EnDone => Parallel(en_news, "en")
       /\ ZhDone => Parallel(zh_news, "chinese (simplified)")

\* Two different articles were translated, some calls throwing, some not.
C7_Witness ==
    /\ ZhDone
    /\ Len(ko_news) = 2
    /\ ko_news[1].url # ko_news[2].url
    /\ ko_news[2].url # <<>>
    /\ Failures(calls) > 0
    /\ \E i \in 1..Len(calls) : IsTranslate(calls[i]) /\ calls[i].ok

(***************************************************************************)
(* C8: the digest renders no field that is absent: as many summary lines   *)
(* in a section as articles with a non-empty description, every summary    *)
(* line with text after its label, as many link lines as source articles   *)
(* with a non-empty url, and all of them in the Korean section.            *)
(* Fails: a description of only whitespace gives a summary line that ends  *)
(* with its label.                                                         *)
(***************************************************************************)
C8_NoEmptyPlaceholder ==
    (entry = "main" /\ message # None) =>
        LET ls == Split(message)
            en_at == CHOOSE k \in 1..Len(ls) : ls[k] = EnHeader
        IN /\ Cardinality(Labelled(ls, KoSummary))
              = Len(SelectSeq(ko_news, HasDescription))
           /\ Cardinality(Labelled(ls, EnSummary))
              = Len(SelectSeq(en_news, HasDescription))
           /\ Cardinality(Labelled(ls, ZhSummary))
              = Len(SelectSeq(zh_news, HasDescription))
           /\ \A k \in Labelled(ls, KoSummary) : Len(ls[k]) > Len(KoSummary)
           /\ \A k \in Labelled(ls, EnSummary) : Len(ls[k]) > Len(EnSummary)
           /\ \A k \in Labelled(ls, ZhSummary) : Len(ls[k]) > Len(ZhSummary)
           /\ Cardinality(Labelled(ls, KoLink))
              = Len(SelectSeq(ko_news, LAMBDA n : n.url # <<>>))
           /\ \A k \in Labelled(ls, KoLink) : k < en_at

(***************************************************************************)
(* C9: translate_text returns "" for an empty text without calling the     *)
(* service; a run over k articles makes 2 x (k + the number of articles    *)
(* with a non-empty description) translation calls, at most 4k, all after  *)
(* the one news query and before the first post, the English ones before   *)
(* the Chinese ones.                                                       *)
(***************************************************************************)
C9_TranslationCallsCountedAndOrdered ==
    /\ (entry = "translate_text" /\ pc = "returned" /\ text = <<>>) =>
          ret = <<>> /\ calls = <<>>
    /\ ZhDone =>
          /\ Len(SelectSeq(calls, IsTranslate))
             = 2 * (Len(ko_news) + Len(SelectSeq(ko_news, HasDescription)))
          /\ Len(SelectSeq(calls, IsTranslate)) <= 4 * Len(ko_news)
          /\ Len(SelectSeq(calls, IsEn)) = Len(SelectSeq(calls, IsZh))
    /\ entry = "main" =>
          /\ Len(SelectSeq(calls, IsNews)) <= 1
          /\ calls # <<>> => calls[1].kind = "news"
          /\ \A i, j \in 1..Len(calls) :
                i < j => Stage(calls[i]) <= Stage(calls[j])

\* A run over two articles, one with a description, has posted its digest.
C9_Witness ==
    /\ entry = "main" /\ pc = "done"
    /\ Len(ko_news) = 2
    /\ Len(SelectSeq(ko_news, HasDescription)) = 1
    /\ Len(SelectSeq(calls, IsTranslate)) = 6
    /\ Posted # <<>>

(***************************************************************************)
(* C10: no post to the webhook is empty or only whitespace.                *)
(* Fails: the buffer is posted as it is when a line does not fit, also     *)
(* when it is still empty or holds only blank lines.                       *)
(***************************************************************************)
C10_NoBlankPost ==
    \A k \in 1..Len(Posted) : Strip(Posted[k]) # <<>>

====
